---- MODULE Spec2Model ----
(***************************************************************************)
(* Contract template builder (tools/update_contract_template.py) and       *)
(* paragraph dumper (tools/dump_contract.py) of Respectabullz.             *)
(*                                                                         *)
(* A document is the ordered sequence of paragraphs python-docx exposes;   *)
(* a paragraph is a record [id, text], id being its position at load time  *)
(* and text a string.  Python's str operations (in, find, replace, strip,  *)
(* startswith, slicing) are modelled character by character on TLA+        *)
(* strings.  TLA+ string literals are ASCII: U+00A0 (non-breaking space)   *)
(* is written "~" and U+201C (left double quotation mark, line 63) is      *)
(* written "^"; neither character occurs in the rule catalogue otherwise.  *)
(***************************************************************************)
EXTENDS Integers, Sequences, FiniteSets, TLC

VARIABLES
    files,      \* the file system: path -> sequence of paragraph texts (or Missing)
    doc,        \* the in-memory Document: sequence of [id, text]
    loaded,     \* history: the paragraphs as they were when doc was loaded
    before,     \* history: doc as it was before the latest operation
    pc,         \* control position of the running tool
    ruleNo,     \* main(): number of the next catalogue call
    saves,      \* history: paths doc.save() was called with, in this invocation
    error,      \* the exception that ended the invocation, or NoError
    trace,      \* history: document operations of this invocation, in order
    run,        \* how many times main() has been invoked
    inserted,   \* history: <<paragraph id, token>> pairs rules have inserted
    call,       \* the helper call under test: [fn, needle, replacement]
    idx,        \* dump_contract: enumerate() index of the next paragraph
    report      \* dump_contract: what has been written to dump_path

vars == <<files, doc, loaded, before, pc, ruleNo, saves, error, trace, run, inserted,
          call, idx, report>>

-----------------------------------------------------------------------------
(* Python str operations *)

NBSP == "~"

\* str.isspace() characters expressible here (str.strip() with no argument)
Whitespace == {" ", "\t", "\n", "\r", "\f", NBSP}

CharAt(s, i) == SubSeq(s, i, i)

\* s[k:] for 0 <= k <= len(s)
SliceFrom(s, k) == SubSeq(s, k + 1, Len(s))

\* the 0-based offsets at which needle occurs in text
Occurrences(needle, text) ==
    {k \in 0..(Len(text) - Len(needle)) :
        SubSeq(text, k + 1, k + Len(needle)) = needle}

\* needle in text
Contains(needle, text) ==
    \E k \in 0..(Len(text) - Len(needle)) :
        SubSeq(text, k + 1, k + Len(needle)) = needle

\* text.find(needle): lowest 0-based offset, -1 when absent
Find(text, needle) ==
    LET occ == Occurrences(needle, text)
    IN  IF occ = {} THEN -1 ELSE CHOOSE k \in occ : \A j \in occ : k <= j

\* text.startswith(prefix)
StartsWith(text, prefix) ==
    /\ Len(text) >= Len(prefix)
    /\ SubSeq(text, 1, Len(prefix)) = prefix

\* text.replace(needle, replacement): every non-overlapping occurrence, left to
\* right; an empty needle matches before every character and at the end
RECURSIVE Replace(_, _, _)
Replace(text, needle, replacement) ==
    IF needle = ""
    THEN IF text = "" THEN replacement
         ELSE replacement \o CharAt(text, 1)
                \o Replace(SliceFrom(text, 1), needle, replacement)
    ELSE LET k == Find(text, needle)
         IN  IF k < 0 THEN text
             ELSE SubSeq(text, 1, k) \o replacement
                    \o Replace(SliceFrom(text, k + Len(needle)), needle, replacement)

RECURSIVE LStrip(_)
LStrip(s) ==
    IF s # "" /\ CharAt(s, 1) \in Whitespace THEN LStrip(SliceFrom(s, 1)) ELSE s

RECURSIVE RStrip(_)
RStrip(s) ==
    IF s # "" /\ CharAt(s, Len(s)) \in Whitespace
    THEN RStrip(SubSeq(s, 1, Len(s) - 1)) ELSE s

\* text.strip()
Strip(s) == RStrip(LStrip(s))

\* update_contract_template.py:30-38
Needle1 == "This Agreement dated"
Replacement1 ==
    "This Agreement dated {agreementDate} is between (Buyer: {buyerName}, {"
    \o "buyerFullAddress}, {buyerPhone}, {buyerEmail}) herein referred to as B"
    \o "uyer and {breederName} of {kennelName} herein referred to as Breeder."
\* update_contract_template.py:40-48
Needle2 == "In Consideration of the total sum"
Replacement2 ==
    "In Consideration of the total sum of {salePrice} ({salePriceWords}) an"
    \o "d the mutual promises contained herein, Breeder has agreed to sell, an"
    \o "d Buyer has agreed to purchase {puppyCount} ({maleCount} male, {female"
    \o "Count} female) American Bully puppy."
\* update_contract_template.py:50-50
Needle3 == "Born on"
Replacement3 ==
    "Born on {puppyDOBLong}"
\* update_contract_template.py:51-51
Needle4 == "Sire:"
Replacement4 ==
    "Sire: {sireName}"
\* update_contract_template.py:52-52
Needle5 == "Dam:"
Replacement5 ==
    "Dam: {damName}"
\* update_contract_template.py:54-58
Needle6 == "The puppy is sold as a pet"
Replacement6 ==
    "{#isPet}The puppy is sold as a pet, with no registration, and must be "
    \o "spayed/neutered at no earlier than 18 months of age no later than two "
    \o "years of age (as early spay/neuter can be detrimental to the dogs over"
    \o "all health and wellness).{/isPet}"
\* update_contract_template.py:60-64
Needle7 == "The puppy is sold with breeding rights"
Replacement7 ==
    "{#isFullRights}The puppy is sold with breeding rights, or ^Full Rights"
    \o "\" registration. Buyer will make a good faith effort to show the dog o"
    \o "r allow the dog to be shown by the Breeder, to its ABKC and UKC Champi"
    \o "onship.{/isFullRights}"
\* update_contract_template.py:66-70
Needle8 == "If No Registration"
Replacement8 ==
    "{#isPet}If \"No Registration\" has been selected, this puppy is being "
    \o "sold as pet quality only, intended for companionship with no guarantee"
    \o "s as to breeding soundness, show-ability, work ability, trainability, "
    \o "temperament or size at maturity. The Buyer agrees to NO BREEDING of th"
    \o "is dog (accidental or intentional).  Buyer is to have the dog altered "
    \o "(Spay/Neuter/Vasectomy/Hysterectomy) by the age of 2 years old (24 mon"
    \o "ths) but no earlier than 18 months of age.{/isPet}"
\* update_contract_template.py:72-76
Needle9 == "The Buyer affirms that their purchase"
Replacement9 ==
    "{#isPet}The Buyer affirms that their purchase is for a \"pet home\" on"
    \o "ly and not for breeding purposes. If the dog produces a litter without"
    \o " the knowledge and written consent of the Breeder, the Breeder will be"
    \o " entitled to compensation in the amount of $5,000 (Five Thousand Dolla"
    \o "rs and no Cents) for breach of contract terms. The Buyer herein agrees"
    \o " to pay the Breeder an additional $2,000 (Two Thousand Dollars and no "
    \o "cents) per puppy produced (dead or alive) from the whelping no later t"
    \o "han 30 days after the birth of the unwarranted breeding.{/isPet}"
\* update_contract_template.py:78-82
Needle10 == "The General Health Guarantee"
Replacement10 ==
    "{#isPet}The General Health Guarantee also becomes null and void if spa"
    \o "y/neuter contract is violated.{/isPet}"
\* update_contract_template.py:84-84
Needle11 == "State of ________, County of ________"
Replacement11 ==
    "State of {state}, County of {county}"
\* update_contract_template.py:85-89
Needle12 == "State of ___________ County of ____________"
Replacement12 ==
    "State of {state} County of {county}"
\* update_contract_template.py:90-94
Needle13 == "State of (______), County of (_____)"
Replacement13 ==
    "State of ({state}), County of ({county})"
\* update_contract_template.py:96-96
Needle14 == "Signed on"
Replacement14 ==
    "Signed on {signingDate}"
\* update_contract_template.py:98-102
Needle15 == "On this _____ day of _________"
Replacement15 ==
    "On this {signingDate}, before me, the undersigned, a Notary Public in "
    \o "and for said State, personally appeared _____________________, persona"
    \o "lly known to me or proved to me on the basis of satisfactory evidence "
    \o "to be the individual whose name is subscribed to the within Instrument"
    \o " and acknowledged to me that s/he/they executed the same in her/his/th"
    \o "eir capacity, and that by her/his/their signature on the instrument, t"
    \o "he individuals, or the person upon behalf of which the individuals act"
    \o "ed, executed the instrument."
\* update_contract_template.py:104-108
Needle16 == "This Agreement is made and entered into this ______ day of"
Replacement16 ==
    "This Agreement is made and entered into this {agreementDate}"
\* update_contract_template.py:109-113
Needle17 == "By and between"
Replacement17 ==
    "By and between {breederName} (Breeder) and {buyerName} (Buyer),"
\* update_contract_template.py:114-119
Needle18 == "For the purpose of setting forth the terms"
Replacement18 ==
    "For the purpose of setting forth the terms and conditions of purchase "
    \o "by the Buyer of a Purebred American Bully from the litter born on {pup"
    \o "pyDOBLong}. Out of {sireName} (Sire), and {damName} (Dam). For {salePr"
    \o "ice} the Breeder agrees to sell and buyer agrees to purchase a {female"
    \o "Count} female, {maleCount} male companion puppy from the litter descri"
    \o "bed above subject to the following terms."

Catalogue ==
  << [kind |-> "whole", needle |-> Needle1, replacement |-> Replacement1],
     [kind |-> "whole", needle |-> Needle2, replacement |-> Replacement2],
     [kind |-> "whole", needle |-> Needle3, replacement |-> Replacement3],
     [kind |-> "whole", needle |-> Needle4, replacement |-> Replacement4],
     [kind |-> "whole", needle |-> Needle5, replacement |-> Replacement5],
     [kind |-> "whole", needle |-> Needle6, replacement |-> Replacement6],
     [kind |-> "whole", needle |-> Needle7, replacement |-> Replacement7],
     [kind |-> "whole", needle |-> Needle8, replacement |-> Replacement8],
     [kind |-> "whole", needle |-> Needle9, replacement |-> Replacement9],
     [kind |-> "whole", needle |-> Needle10, replacement |-> Replacement10],
     [kind |-> "substring", needle |-> Needle11, replacement |-> Replacement11],
     [kind |-> "substring", needle |-> Needle12, replacement |-> Replacement12],
     [kind |-> "substring", needle |-> Needle13, replacement |-> Replacement13],
     [kind |-> "whole", needle |-> Needle14, replacement |-> Replacement14],
     [kind |-> "whole", needle |-> Needle15, replacement |-> Replacement15],
     [kind |-> "whole", needle |-> Needle16, replacement |-> Replacement16],
     [kind |-> "whole", needle |-> Needle17, replacement |-> Replacement17],
     [kind |-> "whole", needle |-> Needle18, replacement |-> Replacement18] >>
-----------------------------------------------------------------------------
(* tools/update_contract_template.py *)

SOURCE_PATH == "contacts/Contract of Sale.docx"
TARGET_PATH == "contacts/Contract Template.docx"

NoError == [type |-> "none", needle |-> ""]

\* the exception raised with a message that leaves the needle out
ValueErrorWithoutNeedle(needle) == [type |-> "ValueError", needle |-> ""]

\* raise ValueError(f"Could not find paragraph containing: {needle!r}")
ValueError(needle) == [type |-> "ValueError", needle |-> needle]

\* for paragraph in doc.paragraphs: if needle in paragraph.text: ... return
\* the position of the paragraph the loop stops at, 0 when it runs to the end
RECURSIVE FirstMatchFrom(_, _, _)
FirstMatchFrom(d, needle, i) ==
    IF i > Len(d) THEN 0
    ELSE IF Contains(needle, d[i].text) THEN i
    ELSE FirstMatchFrom(d, needle, i + 1)

\* the loop keeping the last paragraph that matches instead of returning
LastMatch(d, needle) ==
    IF \A i \in 1..Len(d) : ~Contains(needle, d[i].text) THEN 0
    ELSE CHOOSE i \in 1..Len(d) :
           /\ Contains(needle, d[i].text)
           /\ \A j \in (i + 1)..Len(d) : ~Contains(needle, d[j].text)

FirstMatch(d, needle) == FirstMatchFrom(d, needle, 1)

\* the helper without its final raise: a miss passes silently
replace_paragraph_contains_silent(d, needle, replacement) ==
    LET hit == FirstMatch(d, needle)
    IN  [doc |-> IF hit = 0 THEN d ELSE [d EXCEPT ![hit].text = replacement],
         error |-> NoError,
         written |-> IF hit = 0 THEN {} ELSE {hit}]

replace_paragraph_contains(d, needle, replacement) ==
    LET hit == FirstMatch(d, needle)
    IN  IF hit = 0
        THEN [doc |-> d, error |-> ValueError(needle), written |-> {}]
        ELSE [doc |-> [d EXCEPT ![hit].text = replacement],
              error |-> NoError, written |-> {hit}]

\* str.replace(needle, replacement, 1): only the first occurrence
ReplaceFirstOnly(text, needle, replacement) ==
    IF Find(text, needle) < 0 THEN text
    ELSE SubSeq(text, 1, Find(text, needle)) \o replacement
           \o SliceFrom(text, Find(text, needle) + Len(needle))

\* paragraph.text = paragraph.text.replace(needle, replacement)
ReplaceInText(text, needle, replacement) == Replace(text, needle, replacement)

replace_text_in_paragraph(d, needle, replacement) ==
    LET hits == {i \in 1..Len(d) : Contains(needle, d[i].text)}
    IN  [doc |-> [i \in 1..Len(d) |->
                    IF i \in hits
                    THEN [d[i] EXCEPT !.text = ReplaceInText(@, needle, replacement)]
                    ELSE d[i]],
         error |-> NoError, written |-> hits]


\* the loop body of lines 122-129, in two parts sharing normalized/stripped
Stripped(text) == Strip(Replace(text, NBSP, " "))

IsStateOf(stripped) == StartsWith(stripped, "STATE OF") /\ Contains(")", stripped)

IsCounty(stripped) == StartsWith(stripped, "COUNTY") /\ Contains(")SS", stripped)

\* the suffix cut from the paragraph's own text instead of the normalized one
StateOfCheckRawSuffix(text, stripped) ==
    IF IsStateOf(stripped)
    THEN "STATE OF {state} " \o SliceFrom(text, Find(text, ")"))
    ELSE text

\* the normalized text written back to a paragraph the check does not accept
StateOfCheckWritingStripped(text, stripped) ==
    IF IsStateOf(stripped)
    THEN "STATE OF {state} " \o SliceFrom(stripped, Find(stripped, ")"))
    ELSE stripped

\* lines 124-127
StateOfCheck(text, stripped) ==
    IF IsStateOf(stripped)
    THEN "STATE OF {state} " \o SliceFrom(stripped, Find(stripped, ")"))
    ELSE text

\* the COUNTY line built like the STATE OF line, keeping what follows ")SS"
CountyCheckKeepingSuffix(text, stripped) ==
    IF IsCounty(stripped)
    THEN "COUNTY OF {county} " \o SliceFrom(stripped, Find(stripped, ")SS"))
    ELSE text

\* lines 128-129
CountyCheck(text, stripped) ==
    IF IsCounty(stripped) THEN "COUNTY OF {county} )SS.:" ELSE text

NormalizeParagraph(text) ==
    CountyCheck(StateOfCheck(text, Stripped(text)), Stripped(text))

NormalizationScan(d) ==
    [i \in 1..Len(d) |-> [d[i] EXCEPT !.text = NormalizeParagraph(@)]]

Texts(d) == [i \in 1..Len(d) |-> d[i].text]

\* Document(path): the paragraphs of the file, in order
Document(paragraphs) ==
    [i \in 1..Len(paragraphs) |-> [id |-> i, text |-> paragraphs[i]]]

File(paragraphs) == [exists |-> TRUE, paragraphs |-> paragraphs]
Missing == [exists |-> FALSE, paragraphs |-> <<>>]

NumRules == Len(Catalogue)

\* an entry of the history of document operations
Op(name, n) == [op |-> name, n |-> n]

AfterRule(n) == IF n = NumRules THEN "scan" ELSE "rules"

Load ==
    /\ pc = "start"
    /\ files[SOURCE_PATH].exists
    /\ doc' = Document(files[SOURCE_PATH].paragraphs)
    /\ loaded' = Document(files[SOURCE_PATH].paragraphs)
    /\ before' = doc
    /\ pc' = "rules"
    /\ ruleNo' = 1
    /\ trace' = <<Op("load", 0)>>
    /\ UNCHANGED <<files, saves, error, run, inserted, call, idx, report>>

ApplyRule(result) ==
    /\ doc' = result.doc
    /\ before' = doc
    /\ error' = result.error
    /\ IF result.error = NoError
       THEN /\ pc' = AfterRule(ruleNo)
            /\ ruleNo' = ruleNo + 1
            /\ trace' = Append(trace, Op("rule", ruleNo))
            /\ inserted' = inserted \cup {<<doc[i].id, ruleNo>> : i \in result.written}
       ELSE /\ pc' = "failed"
            /\ UNCHANGED <<ruleNo, trace, inserted>>
    /\ UNCHANGED <<files, loaded, saves, run, call, idx, report>>

WholeParagraphRule ==
    /\ pc = "rules"
    /\ Catalogue[ruleNo].kind = "whole"
    /\ ApplyRule(replace_paragraph_contains(doc, Catalogue[ruleNo].needle,
                                            Catalogue[ruleNo].replacement))

SubstringRule ==
    /\ pc = "rules"
    /\ Catalogue[ruleNo].kind = "substring"
    /\ ApplyRule(replace_text_in_paragraph(doc, Catalogue[ruleNo].needle,
                                           Catalogue[ruleNo].replacement))

Scan ==
    /\ pc = "scan"
    /\ doc' = NormalizationScan(doc)
    /\ before' = doc
    /\ pc' = "save"
    /\ trace' = Append(trace, Op("scan", 0))
    /\ UNCHANGED <<files, loaded, ruleNo, saves, error, run, inserted, call, idx, report>>

\* the template written over the contract it was made from
SavePathIsSource == SOURCE_PATH

\* doc.save(TARGET_PATH)
SavePath == TARGET_PATH

Save ==
    /\ pc = "save"
    /\ files' = [files EXCEPT ![SavePath] = File(Texts(doc))]
    /\ saves' = Append(saves, SavePath)
    /\ trace' = Append(trace, Op("save", 0))
    /\ before' = doc
    /\ pc' = "done"
    /\ UNCHANGED <<doc, loaded, ruleNo, error, run, inserted, call, idx, report>>

\* the operator runs the builder again with the written template as its source
Rerun ==
    /\ pc = "done"
    /\ run = 1
    /\ files' = [files EXCEPT ![SOURCE_PATH] = files[TARGET_PATH]]
    /\ run' = 2
    /\ pc' = "start"
    /\ doc' = <<>>
    /\ loaded' = <<>>
    /\ before' = <<>>
    /\ ruleNo' = 1
    /\ saves' = <<>>
    /\ trace' = <<>>
    /\ inserted' = {}
    /\ error' = NoError
    /\ UNCHANGED <<call, idx, report>>

-----------------------------------------------------------------------------
(* Source documents *)

\* a contract in the wording the catalogue's needles were taken from
Original ==
  << "CONTRACT OF SALE",
     "This Agreement dated ____________ is between ____________ herein referred to as Buyer and ____________ herein referred to as Breeder.",
     "In Consideration of the total sum of $______ and the mutual promises contained herein.",
     "Born on ____________",
     "Sire: ____________",
     "Dam: ____________",
     "The puppy is sold as a pet, with no registration.",
     "The puppy is sold with breeding rights, or Full Rights registration.",
     "If No Registration has been selected, this puppy is being sold as pet quality only.",
     "The Buyer affirms that their purchase is for a pet home only.",
     "The General Health Guarantee also becomes null and void if spay/neuter contract is violated.",
     "",
     "Executed in the State of ________, County of ________",
     "Signed on ____________",
     "STATE OF NEW YORK )",
     "COUNTY OF ________ )SS.:",
     "On this _____ day of _________, before me, the undersigned, personally appeared ________.",
     "This Agreement is made and entered into this ______ day of ________",
     "By and between ____________ (Breeder) and ____________ (Buyer),",
     "For the purpose of setting forth the terms and conditions of purchase." >>

\* a second copy of the three clauses whose replacement drops the needle's wording
Addendum ==
  << "If No Registration applies, the terms above govern.",
     "On this _____ day of _________ the addendum was witnessed.",
     "This Agreement is made and entered into this ______ day of ________ (copy)" >>

\* further paragraphs a source document may hold
ExtraPool ==
  { "   ",
    "Signed on ______ in the State of ________, County of ________",
    "STATE OF ________ State of ________, County of ________ )",
    " STATE~OF~TEXAS ) ss.: ",
    "STATE OF ) If~No Registration",
    "KINGS COUNTY )SS",
    "COUNTY OF KINGS )SS.: before me",
    "COUNTY State of (______), County of (_____) )SS",
    "Grand Sire: ____ and Dam: ____" }

MaxExtras == 1

ExtraSeqs == UNION {[1..n -> ExtraPool] : n \in 0..MaxExtras}

Without(s, k) == SubSeq(s, 1, k - 1) \o SubSeq(s, k + 1, Len(s))

SourceDocs ==
    {Without(Original, k) : k \in 1..Len(Original)}
    \cup UNION {{SubSeq(e, 1, j) \o body \o SubSeq(e, j + 1, Len(e)) :
                    j \in 0..Len(e), body \in {Original, Original \o Addendum}} :
                 e \in ExtraSeqs}

Init ==
    /\ \E d \in SourceDocs :
         files = [p \in {SOURCE_PATH, TARGET_PATH} |->
                    IF p = SOURCE_PATH THEN File(d) ELSE Missing]
    /\ doc = <<>>
    /\ loaded = <<>>
    /\ before = <<>>
    /\ pc = "start"
    /\ ruleNo = 1
    /\ saves = <<>>
    /\ error = NoError
    /\ trace = <<>>
    /\ run = 1
    /\ inserted = {}
    /\ call = [fn |-> "", needle |-> "", replacement |-> ""]
    /\ idx = 0
    /\ report = ""

Next == Load \/ WholeParagraphRule \/ SubstringRule \/ Scan \/ Save \/ Rerun

Spec == Init /\ [][Next]_vars

-----------------------------------------------------------------------------
(* Properties of a run of main() *)

\* the placeholder tokens of a replacement: every "{...}" up to the next "}"
Tokens(s) ==
    LET opens  == {i \in 1..Len(s) : CharAt(s, i) = "{"}
        closes == {j \in 1..Len(s) : CharAt(s, j) = "}"}
    IN  {SubSeq(s, i, CHOOSE j \in closes :
                        j > i /\ \A k \in closes : k > i => j <= k) :
            i \in {o \in opens : \E j \in closes : j > o}}

RuleOps(n) == [k \in 1..n |-> Op("rule", k)]

\* C3: a run either applies every catalogue call and the scan in order and then
\* saves exactly once, to the target path, as its last operation, or stops at
\* the first whole-paragraph rule whose needle no paragraph contains and never
\* saves; nothing is saved before the end, twice, or to the source path.
C3_SaveOnceAfterAllRulesOrNever ==
    /\ Len(saves) <= 1
    /\ \A i \in 1..Len(saves) : saves[i] = TARGET_PATH /\ saves[i] # SOURCE_PATH
    /\ pc # "done" => saves = <<>>
    /\ pc = "done" =>
         /\ trace = <<Op("load", 0)>> \o RuleOps(NumRules)
                      \o <<Op("scan", 0), Op("save", 0)>>
         /\ saves = <<TARGET_PATH>>
         /\ files[TARGET_PATH] = File(Texts(doc))
    /\ pc = "failed" =>
         /\ trace = <<Op("load", 0)>> \o RuleOps(ruleNo - 1)
         /\ Catalogue[ruleNo].kind = "whole"
         /\ \A i \in 1..Len(doc) : ~Contains(Catalogue[ruleNo].needle, doc[i].text)
         /\ error = ValueError(Catalogue[ruleNo].needle)

C3_Witness ==
    /\ run = 1
    /\ pc = "done"
    /\ saves = <<TARGET_PATH>>
    /\ Len(trace) = NumRules + 3

\* C2: a whole-paragraph call made when no paragraph contains its needle raises
\* ValueError carrying that needle and changes no paragraph, and nothing is
\* saved: the target file is as it was when the run started.  (A call that
\* returned had a paragraph containing its needle.)
C2_MissRaisesChangesAndSavesNothing ==
    /\ pc = "failed" =>
         /\ error = [type |-> "ValueError", needle |-> Catalogue[ruleNo].needle]
         /\ \A i \in 1..Len(before) : ~Contains(Catalogue[ruleNo].needle, before[i].text)
         /\ doc = before
         /\ saves = <<>>
         /\ files[TARGET_PATH] = IF run = 1 THEN Missing ELSE files[SOURCE_PATH]
    /\ (pc \in {"rules", "scan"} /\ ruleNo > 1 /\ Catalogue[ruleNo - 1].kind = "whole") =>
         /\ error = NoError
         /\ \E i \in 1..Len(before) : Contains(Catalogue[ruleNo - 1].needle, before[i].text)

C2_Witness ==
    /\ pc = "failed"
    /\ run = 1
    /\ error.needle = Needle14
    /\ doc = before
    /\ doc # loaded
    /\ saves = <<>>

\* C5: at the save of a successful run, every placeholder token a rule inserted
\* into a paragraph is still in that paragraph's text.
C5_InsertedTokensSurvive ==
    pc = "done" =>
        \A ins \in inserted :
            \A tok \in Tokens(Catalogue[ins[2]].replacement) :
                Contains(tok, doc[ins[1]].text)

\* the whole-paragraph rules whose replacement no longer contains their needle
DroppedNeedleRules ==
    {r \in 1..NumRules :
        /\ Catalogue[r].kind = "whole"
        /\ ~Contains(Catalogue[r].needle, Catalogue[r].replacement)}

\* C9 as stated: a second run over the templated output never gets past the
\* rules: it raises a required-match failure and saves nothing.
C9_RerunAlwaysFails ==
    run = 2 => pc \in {"start", "rules", "failed"} /\ saves = <<>>

\* C9 amended: a second run over the templated output raises a required-match
\* failure and saves nothing whenever the templated output lacks, in every
\* paragraph, the needle of one of the rules whose replacement drops it.
C9_RerunFailsWhenDroppedNeedleGone ==
    (run = 2 /\ (pc \in {"scan", "save", "done"} \/ saves # <<>>)) =>
        \A r \in DroppedNeedleRules :
            \E i \in 1..Len(files[SOURCE_PATH].paragraphs) :
                Contains(Catalogue[r].needle, files[SOURCE_PATH].paragraphs[i])

C9_Witness ==
    /\ run = 2
    /\ pc = "failed"
    /\ saves = <<>>
    /\ error = ValueError(Needle8)
    /\ \A i \in 1..Len(files[SOURCE_PATH].paragraphs) :
           ~Contains(Needle8, files[SOURCE_PATH].paragraphs[i])

\* a text no catalogue needle occurs in and neither structural check accepts
Untargeted(text) ==
    /\ \A r \in 1..NumRules : ~Contains(Catalogue[r].needle, text)
    /\ ~IsStateOf(Stripped(text))
    /\ ~IsCounty(Stripped(text))

\* C10: throughout a run the document has the paragraphs it was loaded with, in
\* the same order; and a paragraph whose loaded text no needle and neither
\* structural check matches has that text at the save (stated from the changed
\* paragraph: one whose text differs at the save was matched by something).
C10_ParagraphsKeptUntargetedUnchanged ==
    pc \in {"rules", "scan", "save", "done", "failed"} =>
        /\ Len(doc) = Len(loaded)
        /\ \A i \in 1..Len(doc) : doc[i].id = loaded[i].id
        /\ pc \in {"save", "done"} =>
             \A i \in 1..Len(doc) :
                 doc[i].text # loaded[i].text => ~Untargeted(loaded[i].text)

C10_Witness ==
    /\ pc = "done"
    /\ \E i \in 1..Len(doc) :
           /\ Untargeted(loaded[i].text)
           /\ Strip(loaded[i].text) # loaded[i].text
           /\ doc[i].text = loaded[i].text
    /\ \E i \in 1..Len(doc) : doc[i].text # loaded[i].text

-----------------------------------------------------------------------------
(* Properties of the normalization scan; in the state after it, before holds
   the paragraphs the scan read and doc the paragraphs it left *)

JustScanned == pc = "save"

CountyLiteral == "COUNTY OF {county} )SS.:"

\* raw begins, after leading whitespace (non-breaking spaces included), with
\* one of the given labels
BeginsWith(raw, labels) ==
    \E k \in 0..Len(raw) :
        /\ \A j \in 1..k : CharAt(raw, j) \in Whitespace
        /\ \E l \in labels : Len(raw) >= k + Len(l) /\ SubSeq(raw, k + 1, k + Len(l)) = l

CountyTest(raw) == BeginsWith(raw, {"COUNTY"}) /\ Contains(")SS", raw)

StateOfTest(raw) ==
    BeginsWith(raw, {"STATE OF", "STATE" \o NBSP \o "OF"}) /\ Contains(")", raw)

\* raw from its first ")" on, non-breaking spaces mapped to spaces, right-trimmed
ParenSuffix(raw) == RStrip(Replace(SliceFrom(raw, Find(raw, ")")), NBSP, " "))

\* C7 as stated: every paragraph containing "COUNTY" and ")SS" anywhere in its
\* text is rewritten by the scan to exactly "COUNTY OF {county} )SS.:".
C7_CountyAnywhereRewritten ==
    JustScanned =>
        \A i \in 1..Len(doc) :
            (Contains("COUNTY", before[i].text) /\ Contains(")SS", before[i].text))
                => doc[i].text = CountyLiteral

\* C7 amended: every paragraph whose text, after mapping non-breaking spaces to
\* spaces and trimming, starts with "COUNTY" and contains ")SS" is rewritten by
\* the scan to exactly "COUNTY OF {county} )SS.:", whatever else it held.
C7_CountyPrefixRewritten ==
    JustScanned =>
        \A i \in 1..Len(doc) :
            CountyTest(before[i].text) => doc[i].text = CountyLiteral

C7_Witness ==
    /\ JustScanned
    /\ \E i \in 1..Len(doc) :
           /\ CountyTest(before[i].text)
           /\ Contains(")SS.: before me", before[i].text)
           /\ doc[i].text = CountyLiteral

\* C8: every paragraph whose text, after mapping non-breaking spaces to spaces
\* and trimming, starts with "STATE OF" and contains ")" is set by the scan to
\* "STATE OF {state} " followed by the normalized text from its first ")" to its
\* end; a paragraph failing that test is left as it was by this check (only the
\* COUNTY check can still rewrite it).
C8_StateOfRewrittenKeepingSuffix ==
    JustScanned =>
        \A i \in 1..Len(doc) :
            IF StateOfTest(before[i].text)
            THEN /\ doc[i].text = "STATE OF {state} " \o ParenSuffix(before[i].text)
                 /\ StartsWith(doc[i].text, "STATE OF {state} )")
            ELSE doc[i].text =
                   IF CountyTest(before[i].text) THEN CountyLiteral ELSE before[i].text

C8_Witness ==
    /\ JustScanned
    /\ \E i \in 1..Len(doc) :
           /\ StateOfTest(before[i].text)
           /\ Contains(NBSP, before[i].text)
           /\ Len(ParenSuffix(before[i].text)) > 1
           /\ doc[i].text = "STATE OF {state} " \o ParenSuffix(before[i].text)
    /\ \E i \in 1..Len(doc) :
           /\ ~StateOfTest(before[i].text)
           /\ Contains(")", before[i].text)
           /\ doc[i].text = before[i].text

-----------------------------------------------------------------------------
(* The two helpers called on their own, over small documents *)

SmallTexts == {"", "a", "b", "ab", "ba", "aab", "abab", "aaa"}

SmallNeedles == {"", "a", "ab", "aa"}

SmallReplacements == {"", "b", "aba"}

MaxParas == 3

SmallDocs == UNION {[1..n -> SmallTexts] : n \in 0..MaxParas}

InitHelpers ==
    /\ \E d \in SmallDocs : doc = Document(d) /\ loaded = Document(d)
    /\ files = [p \in {SOURCE_PATH, TARGET_PATH} |-> Missing]
    /\ before = <<>>
    /\ pc = "call"
    /\ ruleNo = 1
    /\ saves = <<>>
    /\ error = NoError
    /\ trace = <<>>
    /\ run = 1
    /\ inserted = {}
    /\ call = [fn |-> "", needle |-> "", replacement |-> ""]
    /\ idx = 0
    /\ report = ""

Return(fn, needle, replacement, result) ==
    /\ doc' = result.doc
    /\ before' = doc
    /\ error' = result.error
    /\ call' = [fn |-> fn, needle |-> needle, replacement |-> replacement]
    /\ pc' = IF result.error = NoError THEN "returned" ELSE "raised"
    /\ UNCHANGED <<files, loaded, ruleNo, saves, trace, run, inserted, idx, report>>

CallReplaceParagraphContains ==
    /\ pc = "call"
    /\ \E needle \in SmallNeedles, replacement \in SmallReplacements :
         Return("replace_paragraph_contains", needle, replacement,
                replace_paragraph_contains(doc, needle, replacement))

CallReplaceTextInParagraph ==
    /\ pc = "call"
    /\ \E needle \in SmallNeedles, replacement \in SmallReplacements :
         Return("replace_text_in_paragraph", needle, replacement,
                replace_text_in_paragraph(doc, needle, replacement))

NextHelpers == CallReplaceParagraphContains \/ CallReplaceTextInParagraph

SpecHelpers == InitHelpers /\ [][NextHelpers]_vars

Called(fn) == pc \in {"returned", "raised"} /\ call.fn = fn

\* C1: when some paragraph contains the needle, replace_paragraph_contains sets
\* the text of the first such paragraph, and of no other, to the replacement,
\* and raises nothing.
C1_FirstMatchOnlyReplaced ==
    (/\ Called("replace_paragraph_contains")
     /\ \E i \in 1..Len(before) : Contains(call.needle, before[i].text)) =>
        /\ pc = "returned"
        /\ error = NoError
        /\ Len(doc) = Len(before)
        /\ \A i \in 1..Len(before) :
             doc[i] =
               IF /\ Contains(call.needle, before[i].text)
                  /\ \A j \in 1..(i - 1) : ~Contains(call.needle, before[j].text)
               THEN [id |-> before[i].id, text |-> call.replacement]
               ELSE before[i]

C1_Witness ==
    /\ Called("replace_paragraph_contains")
    /\ pc = "returned"
    /\ Len(before) >= 2
    /\ \E i \in 2..Len(before) :
           /\ Contains(call.needle, before[i].text)
           /\ Contains(call.needle, before[i - 1].text)
           /\ before[i - 1].text # call.replacement
           /\ doc[i - 1].text = call.replacement
           /\ doc[i].text = before[i].text
           /\ doc[i].text # call.replacement

\* the offsets str.replace cuts at: occurrences that do not overlap, each
\* occurrence left out overlapping an earlier one that was taken
ReplacedAt(text, needle) ==
    LET occ == Occurrences(needle, text)
    IN  CHOOSE C \in SUBSET occ :
          /\ \A c1, c2 \in C : c1 < c2 => c2 - c1 >= Len(needle)
          /\ \A p \in occ \ C : \E c \in C : c < p /\ p < c + Len(needle)

\* new is old with the needle replaced at every offset of ReplacedAt(old, needle)
\* and every other character kept, in order
AllReplaced(old, needle, replacement, new) ==
    LET C == ReplacedAt(old, needle)
        grow == Len(replacement) - Len(needle)
        Kept(q) == ~\E c \in C : c <= q /\ q < c + Len(needle)
        KeptAt(q) == q + Cardinality({c \in C : c + Len(needle) <= q}) * grow
        PutAt(c) == c + Cardinality({b \in C : b < c}) * grow
    IN  /\ Len(new) = Len(old) + Cardinality(C) * grow
        /\ \A q \in 0..(Len(old) - 1) :
             Kept(q) => CharAt(new, KeptAt(q) + 1) = CharAt(old, q + 1)
        /\ \A c \in C :
             SubSeq(new, PutAt(c) + 1, PutAt(c) + Len(replacement)) = replacement

\* C4: replace_text_in_paragraph never raises; a paragraph containing the needle
\* gets its text with every occurrence replaced and the rest kept, and every
\* other paragraph is unchanged.
C4_EveryOccurrenceReplacedRestKept ==
    Called("replace_text_in_paragraph") =>
        /\ pc = "returned"
        /\ error = NoError
        /\ Len(doc) = Len(before)
        /\ \A i \in 1..Len(before) :
             /\ doc[i].id = before[i].id
             /\ IF Contains(call.needle, before[i].text)
                THEN AllReplaced(before[i].text, call.needle, call.replacement,
                                 doc[i].text)
                ELSE doc[i].text = before[i].text
        /\ (\A i \in 1..Len(before) : ~Contains(call.needle, before[i].text))
             => doc = before

C4_Witness ==
    /\ Called("replace_text_in_paragraph")
    /\ pc = "returned"
    /\ call.needle = "ab"
    /\ call.replacement = "aba"
    /\ \E i, j \in 1..Len(before) :
           /\ before[i].text = "abab"
           /\ doc[i].text = "abaaba"
           /\ ~Contains(call.needle, before[j].text)
           /\ doc[j].text = before[j].text

-----------------------------------------------------------------------------
(* tools/dump_contract.py *)

Digits == "0123456789"

\* str(i) of f"{i}: ..." for i >= 0
RECURSIVE Str(_)
Str(i) ==
    IF i < 10 THEN CharAt(Digits, i + 1)
    ELSE Str(i \div 10) \o CharAt(Digits, (i % 10) + 1)

\* f"{i}: {text}\n"
ReportEntry(i, text) == Str(i) \o ": " \o text \o "\n"

\* for i, paragraph in enumerate(doc.paragraphs): one iteration, non-blank text
DumpWrite ==
    /\ pc = "dump"
    /\ idx < Len(doc)
    /\ Strip(doc[idx + 1].text) # ""
    /\ report' = report \o ReportEntry(idx, Strip(doc[idx + 1].text))
    /\ idx' = idx + 1
    /\ UNCHANGED <<files, doc, loaded, before, pc, ruleNo, saves, error, trace, run,
                   inserted, call>>

\* one iteration, blank text: nothing is written
DumpSkip ==
    /\ pc = "dump"
    /\ idx < Len(doc)
    /\ Strip(doc[idx + 1].text) = ""
    /\ idx' = idx + 1
    /\ UNCHANGED <<files, doc, loaded, before, pc, ruleNo, saves, error, trace, run,
                   inserted, call, report>>

\* the loop ends, the with block closes the file
DumpClose ==
    /\ pc = "dump"
    /\ idx = Len(doc)
    /\ pc' = "dumped"
    /\ UNCHANGED <<files, doc, loaded, before, ruleNo, saves, error, trace, run,
                   inserted, call, idx, report>>

\* paragraphs a dumped document may hold besides the contract's
DumpPool == {"", "  ", NBSP \o "\t", "a", " a b ", "a\nb", "\nc" \o NBSP}

MaxDumpExtras == 2

DumpDocs ==
    {head \o tail : head \in {<<>>, Original},
                    tail \in UNION {[1..n -> DumpPool] : n \in 0..MaxDumpExtras}}

InitDump ==
    /\ \E d \in DumpDocs : doc = Document(d) /\ loaded = Document(d)
    /\ files = [p \in {SOURCE_PATH, TARGET_PATH} |-> Missing]
    /\ before = <<>>
    /\ pc = "dump"
    /\ ruleNo = 1
    /\ saves = <<>>
    /\ error = NoError
    /\ trace = <<>>
    /\ run = 1
    /\ inserted = {}
    /\ call = [fn |-> "", needle |-> "", replacement |-> ""]
    /\ idx = 0
    /\ report = ""

NextDump == DumpWrite \/ DumpSkip \/ DumpClose

SpecDump == InitDump /\ [][NextDump]_vars

\* the newline-terminated lines of a text file
RECURSIVE Lines(_)
Lines(s) ==
    IF s = "" THEN <<>>
    ELSE IF Find(s, "\n") < 0 THEN <<s>>
    ELSE <<SubSeq(s, 1, Find(s, "\n"))>> \o Lines(SliceFrom(s, Find(s, "\n") + 1))

\* "<index>: <trimmed text>" for the non-blank paragraphs from position i on
RECURSIVE ExpectedLines(_, _)
ExpectedLines(d, i) ==
    IF i > Len(d) THEN <<>>
    ELSE IF Strip(d[i].text) = "" THEN ExpectedLines(d, i + 1)
    ELSE <<Str(i - 1) \o ": " \o Strip(d[i].text)>> \o ExpectedLines(d, i + 1)

NonBlank(d) == {i \in 1..Len(d) : Strip(d[i].text) # ""}

\* C6: the finished report has exactly one line per non-blank paragraph, each
\* "<index>: <trimmed text>" with the paragraph's 0-based position, in
\* increasing order of position, and the paragraphs are not changed.
C6_OneLinePerNonBlankParagraph ==
    pc = "dumped" =>
        /\ Len(Lines(report)) = Cardinality(NonBlank(doc))
        /\ Lines(report) = ExpectedLines(doc, 1)
        /\ doc = loaded

====
